---- MODULE Spec2Model ----
(***************************************************************************)
(* Tagged parameters of 802.11 management frames: the tag iterator, the    *)
(* tagged-parameter collection with its typed accessors, and the RSN and   *)
(* suite decoders of src/src/management/tagged_parameters.rs.              *)
(*                                                                         *)
(* Byte slices are sequences of numbers 0..255; the Rust index i of a      *)
(* slice is the TLA+ index i+1.  An index or a slice outside the bounds    *)
(* of a slice panics in Rust; the model returns the value Panic there.     *)
(***************************************************************************)
EXTENDS Integers, Sequences, FiniteSets, TLC

VARIABLES
    frame,   \* the frame view: its type, its management subtype, its bytes
    pc,      \* what the caller did last: "frame", "iter", "coll", "done", "panicked"
    iter,    \* the TaggedParameterIterator the caller holds (its self.bytes), or NoIter
    items,   \* the results of the calls of next made on iter so far, in order
    coll,    \* the Result of tagged_parameters(), or NoColl
    calls,   \* the number of calls of next made by tagged_parameters()
    ret,     \* the operation called last and the value it returned
    suite    \* the (oui, type_) pair handed to the suite classifiers

vars == <<frame, pc, iter, items, coll, calls, ret, suite>>

\* ---------------------------------------------------------------- bounds

\* Complete records in a region (a truncated last record counts as one).
MaxRecords == 2
\* Value bytes a complete record of a generated region carries at most.
MaxValLen == 1
\* Calls of next a caller makes after the iterator first yielded end-of-sequence.
MaxExtraCalls == 2
\* Entries a generated RSN value carries in each of its two suite lists.
MaxSuites == 1

\* ------------------------------------------------- Option, Result, panic

None == [k |-> "None"]
Some(v) == [k |-> "Some", v |-> v]
Panic == [k |-> "Panic"]
NoIter == [k |-> "NoIter"]
NoColl == [k |-> "NoColl"]

\* bytes[from..]
SliceFrom(bytes, from) ==
    IF from <= Len(bytes) THEN Some(SubSeq(bytes, from + 1, Len(bytes))) ELSE Panic

\* bytes[from..to]
Slice(bytes, from, to) ==
    IF from <= to /\ to <= Len(bytes) THEN Some(SubSeq(bytes, from + 1, to)) ELSE Panic

\* bytes[i]
At(bytes, i) ==
    IF i < Len(bytes) THEN Some(bytes[i + 1]) ELSE Panic

\* LittleEndian::read_u16 of a two-byte slice
read_u16(two) == two[1] + 256 * two[2]

\* --------------------------------------------------------------- TagName

SSID == [name |-> "SSID"]
SupportedRates == [name |-> "SupportedRates"]
DSParameter == [name |-> "DSParameter"]
RSNInformation == [name |-> "RSNInformation"]
HTInformation == [name |-> "HTInformation"]
Other(n) == [name |-> "Other", n |-> n]

TagName_from(tag_number) ==
    CASE tag_number = 0 -> SSID
      [] tag_number = 1 -> SupportedRates
      [] tag_number = 3 -> DSParameter
      [] tag_number = 5 -> [name |-> "TrafficIndicationMap"]
      [] tag_number = 7 -> [name |-> "CountryInformation"]
      [] tag_number = 33 -> [name |-> "PowerCapabilities"]
      [] tag_number = 42 -> [name |-> "ERPInformation"]
      [] tag_number = 50 -> [name |-> "ExtendedSupportedRates"]
      [] tag_number = 48 -> RSNInformation
      [] tag_number = 11 -> [name |-> "QBSSLoadElement"]
      [] tag_number = 45 -> [name |-> "HTCapabilities"]
      [] tag_number = 61 -> HTInformation
      [] tag_number = 127 -> [name |-> "ExtendedCapabilities"]
      [] tag_number = 191 -> [name |-> "VHTCapabilities"]
      [] OTHER -> Other(tag_number)

\* ------------------------------------------------------------ the iterator

OverflowError(required_length, remaining_length) ==
    [k |-> "Err", required_length |-> required_length,
     remaining_length |-> remaining_length]

OkTag(tag_name, tag_buffer) ==
    [k |-> "Ok", tag_name |-> tag_name, tag_buffer |-> tag_buffer]

\* A mutant of next: on a truncated record the error is built before
\* self.bytes is emptied, and self.bytes is left as it was.
next_keeps_bytes(bytes) ==
    IF Len(bytes) < 2
    THEN [item |-> None, bytes |-> bytes]
    ELSE IF Len(bytes) < 2 + bytes[2]
         THEN [item |-> OverflowError(bytes[2], Len(bytes)), bytes |-> bytes]
         ELSE [item |-> OkTag(TagName_from(bytes[1]), SubSeq(bytes, 3, 2 + bytes[2])),
               bytes |-> SubSeq(bytes, 3 + bytes[2], Len(bytes))]

\* TaggedParameterIterator::next on an iterator whose self.bytes is bytes:
\* the item it returns (None, an OkTag, an OverflowError, or Panic) and the
\* new self.bytes.
next(bytes) ==
    IF Len(bytes) < 2
    THEN [item |-> None, bytes |-> bytes]
    ELSE LET tag_number == At(bytes, 0)
             tag_length == At(bytes, 1)
         IN  IF tag_number = Panic \/ tag_length = Panic
             THEN [item |-> Panic, bytes |-> bytes]
             ELSE IF Len(bytes) < 2 + tag_length.v
                  THEN LET rest == SliceFrom(bytes, Len(bytes))
                       IN  IF rest = Panic
                           THEN [item |-> Panic, bytes |-> bytes]
                           ELSE [item |-> OverflowError(tag_length.v, Len(rest.v)),
                                 bytes |-> rest.v]
                  ELSE LET tag_buffer == Slice(bytes, 2, 2 + tag_length.v)
                           rest == SliceFrom(bytes, 2 + tag_length.v)
                       IN  IF tag_buffer = Panic \/ rest = Panic
                           THEN [item |-> Panic, bytes |-> bytes]
                           ELSE [item |-> OkTag(TagName_from(tag_number.v), tag_buffer.v),
                                 bytes |-> rest.v]

\* ----------------------------------------------------------- the frames

\* The management subtypes with a tagged-parameter region.
Kinds == {"AssociationRequest", "AssociationResponse", "Authentication",
          "Beacon", "ProbeRequest", "ProbeResponse"}

\* Each kind's TAGGED_PARAMETERS_START: the 24-byte management header and
\* the kind's fixed fields.
TAGGED_PARAMETERS_START(kind) ==
    CASE kind = "AssociationRequest" -> 28
      [] kind = "AssociationResponse" -> 30
      [] kind = "Authentication" -> 30
      [] kind = "Beacon" -> 36
      [] kind = "ProbeRequest" -> 24
      [] kind = "ProbeResponse" -> 36

\* self.subtype(): FrameSubtype::Management(subtype), or another frame type.
IsManagement(f) == f.type = "Management"

\* The bytes after the fixed header of a frame of a kind of Kinds that is
\* long enough to hold the header.
Region(f) ==
    SubSeq(f.bytes, TAGGED_PARAMETERS_START(f.subtype) + 1, Len(f.bytes))

HasRegion(f) ==
    /\ IsManagement(f)
    /\ f.subtype \in Kinds
    /\ TAGGED_PARAMETERS_START(f.subtype) <= Len(f.bytes)

\* TaggedParametersTrait::iter_tagged_parameters of a frame of a kind of
\* Kinds: the iterator's self.bytes, or Panic.
iter_tagged_parameters(f) ==
    SliceFrom(f.bytes, TAGGED_PARAMETERS_START(f.subtype))

\* OptionalTaggedParametersTrait::iter_tagged_parameters of a ManagementFrame
\* view: None, Some(self.bytes of the iterator), or Panic.
opt_iter_tagged_parameters(f) ==
    IF ~IsManagement(f) THEN None
    ELSE IF f.subtype \notin Kinds THEN None
    ELSE LET offset == TAGGED_PARAMETERS_START(f.subtype)
         IN  IF offset > Len(f.bytes) THEN None
             ELSE SliceFrom(f.bytes, offset)

\* ---------------------------------------------------------- the collection

\* TaggedParameters::new: the empty map.
new == << >>

\* A mutant of add: an entry already present is kept.
add_keeps_first(tags, tag_name, tag_data) ==
    [t \in DOMAIN tags \cup {tag_name} |->
        IF t \in DOMAIN tags THEN tags[t] ELSE tag_data]

\* TaggedParameters::add: HashMap::insert, which replaces the entry of an
\* equal key.
add(tags, tag_name, tag_data) ==
    [t \in DOMAIN tags \cup {tag_name} |->
        IF t = tag_name THEN tag_data ELSE tags[t]]

\* TaggedParameters::get_bytes
get_bytes(tags, tag_name) ==
    IF tag_name \in DOMAIN tags THEN Some(tags[tag_name]) ELSE None

\* TaggedParameters::ssid
ssid(tags) == get_bytes(tags, SSID)

\* TaggedParameters::supported_rates: each rate is (kbps * 500.0) / 1000.0,
\* kept as the exact fraction num/den.
supported_rates(tags) ==
    IF SupportedRates \in DOMAIN tags
    THEN LET rates == tags[SupportedRates]
         IN  Some([j \in 1..Len(rates) |->
                      [num |-> (rates[j] % 128) * 500, den |-> 1000]])
    ELSE None

\* TaggedParameters::channel
channel(tags) ==
    IF DSParameter \in DOMAIN tags
    THEN At(tags[DSParameter], 0)
    ELSE IF HTInformation \in DOMAIN tags
         THEN At(tags[HTInformation], 0)
         ELSE None

\* ------------------------------------------------------------- the suites

\* A mutant of CipherSuiteType::from: the codes are taken as consecutive, 3
\* for CCMP and so on.
CipherSuiteType_from_dense(type_) ==
    CASE type_ = 1 -> [name |-> "WEP40"]
      [] type_ = 2 -> [name |-> "TKIP"]
      [] type_ = 3 -> [name |-> "CCMP"]
      [] type_ = 4 -> [name |-> "WEP104"]
      [] type_ = 5 -> [name |-> "BIP"]
      [] type_ = 6 -> [name |-> "GroupAddressedTrafficNotAllowed"]
      [] OTHER -> [name |-> "Reserved", code |-> type_]

\* CipherSuiteType::from
CipherSuiteType_from(type_) ==
    CASE type_ = 1 -> [name |-> "WEP40"]
      [] type_ = 2 -> [name |-> "TKIP"]
      [] type_ = 4 -> [name |-> "CCMP"]
      [] type_ = 5 -> [name |-> "WEP104"]
      [] type_ = 6 -> [name |-> "BIP"]
      [] type_ = 7 -> [name |-> "GroupAddressedTrafficNotAllowed"]
      [] OTHER -> [name |-> "Reserved", code |-> type_]

\* CipherSuite::from
CipherSuite_from(oui, type_) ==
    IF oui = <<0, 15, 172>>
    THEN [k |-> "Standard", type_ |-> CipherSuiteType_from(type_)]
    ELSE [k |-> "Vendor", oui |-> oui, type_ |-> type_]

\* AKMSuiteType::from
AKMSuiteType_from(type_) ==
    CASE type_ = 1 -> [name |-> "IEEE802_1X"]
      [] type_ = 2 -> [name |-> "PSK"]
      [] type_ = 3 -> [name |-> "FTOver802_1X"]
      [] type_ = 4 -> [name |-> "FTPSK"]
      [] type_ = 5 -> [name |-> "IEEE802_1XSHA"]
      [] type_ = 6 -> [name |-> "PSKSHA"]
      [] type_ = 7 -> [name |-> "TDLS"]
      [] type_ = 8 -> [name |-> "SAE"]
      [] type_ = 9 -> [name |-> "FTOverSAE"]
      [] OTHER -> [name |-> "Reserved", code |-> type_]

\* AKMSuite::from
AKMSuite_from(oui, type_) ==
    IF oui = <<0, 15, 172>>
    THEN [k |-> "Standard", type_ |-> AKMSuiteType_from(type_)]
    ELSE [k |-> "Vendor", oui |-> oui, type_ |-> type_]

\* RSN::read_suite_oui_and_type: (bytes[0..3], bytes[3]), or Panic.
read_suite_oui_and_type(bytes) ==
    LET suite_oui == Slice(bytes, 0, 3)
        suite_type == At(bytes, 3)
    IN  IF suite_oui = Panic \/ suite_type = Panic
        THEN Panic
        ELSE Some([oui |-> suite_oui.v, type_ |-> suite_type.v])

\* RSN::read_cipher_suite
read_cipher_suite(bytes) ==
    LET p == read_suite_oui_and_type(bytes)
    IN  IF p = Panic THEN Panic ELSE Some(CipherSuite_from(p.v.oui, p.v.type_))

\* RSN::read_akm_suite
read_akm_suite(bytes) ==
    LET p == read_suite_oui_and_type(bytes)
    IN  IF p = Panic THEN Panic ELSE Some(AKMSuite_from(p.v.oui, p.v.type_))

\* ---------------------------------------------------------------- the RSN

\* RSNCapabilities of the 16-bit value b.
RSNCapabilities(b) ==
    [pre_auth |-> b % 2 # 0,
     pairwise |-> (b \div 2) % 2 # 0,
     ptksa_replay_counter_value |-> (b \div 4) % 4,
     gtksa_replay_counter_value |-> (b \div 16) % 4,
     management_frame_protection_required |-> (b \div 64) % 2 # 0,
     management_frame_protection_capable |-> (b \div 128) % 2 # 0,
     joint_multi_band_rsna |-> (b \div 256) % 2 # 0,
     peerkey |-> (b \div 512) % 2 # 0]

\* RSN::default()
RSN_default ==
    [group_cipher_suite |-> None, pairwise_cipher_suites |-> << >>,
     akm_suites |-> << >>, capabilities |-> None]

\* One of the two for loops of make_std_rsn, with `left` iterations to go,
\* the cursor at i and the entries pushed so far in list: where the cursor
\* ends, the list, and whether the loop returned from the function (or
\* panicked).
RECURSIVE suite_loop(_, _, _, _, _)
suite_loop(bytes, i, left, list, akm) ==
    IF left = 0
    THEN [i |-> i, list |-> list, end |-> "next"]
    ELSE IF i + 4 > Len(bytes)
         THEN [i |-> i, list |-> list, end |-> "return"]
         ELSE LET four == Slice(bytes, i, i + 4)
                  s == IF four = Panic THEN Panic
                       ELSE IF akm THEN read_akm_suite(four.v)
                            ELSE read_cipher_suite(four.v)
              IN  IF s = Panic
                  THEN [i |-> i, list |-> list, end |-> "panic"]
                  ELSE suite_loop(bytes, i + 4, left - 1, Append(list, s.v), akm)

\* make_std_rsn from its second for loop on: rsn holds the group suite and
\* the pairwise list, the cursor is at i.
std_rsn_akm(bytes, i, rsn) ==
    IF i + 2 > Len(bytes) THEN rsn
    ELSE LET akm_suite_count == read_u16(SubSeq(bytes, i + 1, i + 2))
             a == suite_loop(bytes, i + 2, akm_suite_count, << >>, TRUE)
             rsn2 == [rsn EXCEPT !.akm_suites = a.list]
         IN  IF a.end = "panic" THEN Panic
             ELSE IF a.end = "return" THEN rsn2
             ELSE IF a.i + 2 > Len(bytes) THEN rsn2
             ELSE LET b == read_u16(SubSeq(bytes, a.i + 1, a.i + 2))
                  IN  [rsn2 EXCEPT !.capabilities = Some(RSNCapabilities(b))]

\* A mutant of make_std_rsn: the group suite and the pairwise count are
\* checked for together, so that a value ending within the count gives
\* no group suite.
make_std_rsn_one_check(bytes) ==
    IF 0 + 6 > Len(bytes) THEN RSN_default
    ELSE LET rsn1 == [RSN_default EXCEPT
                        !.group_cipher_suite = read_cipher_suite(SubSeq(bytes, 1, 4))]
             p == suite_loop(bytes, 6, read_u16(SubSeq(bytes, 5, 6)), << >>, FALSE)
             rsn2 == [rsn1 EXCEPT !.pairwise_cipher_suites = p.list]
         IN  IF p.end = "return" THEN rsn2 ELSE std_rsn_akm(bytes, p.i, rsn2)

\* make_std_rsn: the RSN decoded from the bytes after the version, or Panic.
make_std_rsn(bytes) ==
    IF 0 + 4 > Len(bytes) THEN RSN_default
    ELSE LET group_cipher_suite == read_cipher_suite(SubSeq(bytes, 1, 4))
             rsn1 == [RSN_default EXCEPT !.group_cipher_suite = group_cipher_suite]
         IN  IF group_cipher_suite = Panic THEN Panic
             ELSE IF 4 + 2 > Len(bytes) THEN rsn1
             ELSE LET pairwise_cipher_suite_count == read_u16(SubSeq(bytes, 5, 6))
                      p == suite_loop(bytes, 6, pairwise_cipher_suite_count, << >>, FALSE)
                      rsn2 == [rsn1 EXCEPT !.pairwise_cipher_suites = p.list]
                  IN  IF p.end = "panic" THEN Panic
                      ELSE IF p.end = "return" THEN rsn2
                      ELSE std_rsn_akm(bytes, p.i, rsn2)

\* TaggedParameters::rsn: None, Some(RSNVersion), or Panic.
rsn(tags) ==
    IF RSNInformation \notin DOMAIN tags THEN None
    ELSE LET bytes == tags[RSNInformation]
         IN  IF 0 + 1 >= Len(bytes) THEN None
             ELSE LET two == Slice(bytes, 0, 2)
                  IN  IF two = Panic THEN Panic
                      ELSE IF read_u16(two.v) = 1
                           THEN LET rest == SliceFrom(bytes, 2)
                                    std == IF rest = Panic THEN Panic
                                           ELSE make_std_rsn(rest.v)
                                IN  IF std = Panic THEN Panic
                                    ELSE Some([k |-> "Standard", rsn |-> std])
                           ELSE Some([k |-> "Reserved", version |-> read_u16(two.v)])

\* ------------------------------------------------- building the collection

\* The for loop of tagged_parameters() over an iterator whose self.bytes is
\* bytes, with the tags added so far and n calls of next made: the Result
\* (or Panic) and the number of calls of next.
RECURSIVE collect(_, _, _)
collect(bytes, tagged_parameters_, n) ==
    LET r == next(bytes)
    IN  CASE r.item.k = "None" ->
                [res |-> [k |-> "Ok", tags |-> tagged_parameters_], calls |-> n + 1]
          [] r.item.k = "Err" -> [res |-> r.item, calls |-> n + 1]
          [] r.item.k = "Panic" -> [res |-> Panic, calls |-> n + 1]
          [] OTHER ->
                collect(r.bytes,
                        add(tagged_parameters_, r.item.tag_name, r.item.tag_buffer),
                        n + 1)

\* A mutant of tagged_parameters: the loop ends at an error and what was
\* collected is returned.
RECURSIVE collect_partial(_, _, _)
collect_partial(bytes, tagged_parameters_, n) ==
    LET r == next(bytes)
    IN  IF r.item.k \in {"None", "Err", "Panic"}
        THEN [res |-> [k |-> "Ok", tags |-> tagged_parameters_], calls |-> n + 1]
        ELSE collect_partial(r.bytes,
                             add(tagged_parameters_, r.item.tag_name, r.item.tag_buffer),
                             n + 1)

tagged_parameters_partial(f) ==
    LET it == iter_tagged_parameters(f)
    IN  IF it = Panic THEN [res |-> Panic, calls |-> 0]
        ELSE collect_partial(it.v, new, 0)

\* TaggedParametersTrait::tagged_parameters of a frame of a kind of Kinds.
tagged_parameters(f) ==
    LET it == iter_tagged_parameters(f)
    IN  IF it = Panic THEN [res |-> Panic, calls |-> 0]
        ELSE collect(it.v, new, 0)

\* A mutant of the trait's ssid: the SSID is looked up in what a tolerant
\* walk collects.
trait_ssid_tolerant(f) ==
    LET tp == tagged_parameters_partial(f)
    IN  IF tp.res = Panic THEN Panic ELSE ssid(tp.res.tags)

\* TaggedParametersTrait::ssid of a frame of a kind of Kinds: None,
\* Some(owned bytes), or Panic.
trait_ssid(f) ==
    LET tp == tagged_parameters(f)
    IN  IF tp.res = Panic THEN Panic
        ELSE IF tp.res.k # "Ok" THEN None
        ELSE ssid(tp.res.tags)

\* ------------------------------------------------------------- the inputs

\* Tag numbers of the generated records: SSID, SupportedRates, Other(2),
\* DSParameter, HTInformation.
TagNumbers == {0, 1, 2, 3, 61}

\* Value bytes of the generated records.
ValBytes == {1, 130}

Zeros(n) == [j \in 1..n |-> 0]

\* The values of n bytes: one byte of ValBytes repeated.
Values(n) == {[j \in 1..n |-> v] : v \in ValBytes}

\* The complete records (tag number, length, value).
Records ==
    UNION {UNION {{<<t, L>> \o v : v \in Values(L)} : L \in 0..MaxValLen}
           : t \in TagNumbers}

\* What can end a region after its complete records: a lone tag number, or a
\* record that declares more value bytes than follow.
Tails ==
    {<<t>> : t \in TagNumbers}
    \cup UNION {UNION {UNION {{<<t, L>> \o v : v \in Values(n)} : n \in 0..(L - 1)}
                       : L \in 1..(MaxValLen + 1)}
                : t \in TagNumbers}

\* The back-to-back sequences of at most n complete records.
RECURSIVE WellFormed(_)
WellFormed(n) ==
    IF n = 0 THEN {<< >>}
    ELSE WellFormed(n - 1)
         \cup {w \o r : w \in WellFormed(n - 1), r \in Records}

\* The regions of at most n records, the last of which may be cut short.
Regions(n) ==
    WellFormed(n) \cup {w \o t : w \in WellFormed(n - 1), t \in Tails}

Management(subtype, bytes) ==
    [type |-> "Management", subtype |-> subtype, bytes |-> bytes]

\* Frames of a kind of Kinds with a whole fixed header: every region for a
\* beacon, the regions of one record for the other kinds.
WholeFrames ==
    {Management("Beacon", Zeros(TAGGED_PARAMETERS_START("Beacon")) \o r)
        : r \in Regions(MaxRecords)}
    \cup UNION {{Management(kind, Zeros(TAGGED_PARAMETERS_START(kind)) \o r)
                    : r \in Regions(1)}
                : kind \in Kinds \ {"Beacon"}}

\* Zero-filled frames of every length up to a beacon's header, of every
\* management subtype (one without tagged parameters among them) and of
\* another frame type.
ShortFrames ==
    UNION {{Management(subtype, Zeros(n)) : subtype \in Kinds \cup {"Deauthentication"}}
           \cup {[type |-> "Data", subtype |-> "Data", bytes |-> Zeros(n)]}
           : n \in 0..TAGGED_PARAMETERS_START("Beacon")}

NoFrame == [type |-> "None", subtype |-> "None", bytes |-> << >>]
NoSuite == [oui |-> <<0, 0, 0>>, type_ |-> 0]
NoRet == [op |-> "none", val |-> None]

\* ----------------------------------------------------------- the actions

IsEnd(item) == item.k = "None"

\* TaggedParametersTrait::iter_tagged_parameters on a frame of a kind of Kinds.
IterTaggedParameters ==
    /\ pc = "frame"
    /\ IsManagement(frame) /\ frame.subtype \in Kinds
    /\ LET it == iter_tagged_parameters(frame)
       IN  /\ iter' = IF it = Panic THEN NoIter ELSE [k |-> "Iter", bytes |-> it.v]
           /\ pc' = IF it = Panic THEN "panicked" ELSE "iter"
           /\ ret' = [op |-> "iter_tagged_parameters",
                      val |-> IF it = Panic THEN Panic ELSE [k |-> "Iter"]]
    /\ UNCHANGED <<frame, items, coll, calls, suite>>

\* OptionalTaggedParametersTrait::iter_tagged_parameters on any frame.
OptIterTaggedParameters ==
    /\ pc = "frame"
    /\ frame # NoFrame
    /\ LET it == opt_iter_tagged_parameters(frame)
       IN  /\ iter' = IF it.k = "Some" THEN [k |-> "Iter", bytes |-> it.v] ELSE NoIter
           /\ pc' = CASE it.k = "Some" -> "iter"
                      [] it.k = "None" -> "done"
                      [] OTHER -> "panicked"
           /\ ret' = [op |-> "optional_iter_tagged_parameters",
                      val |-> IF it.k = "Some" THEN [k |-> "Iter"] ELSE it]
    /\ UNCHANGED <<frame, items, coll, calls, suite>>

\* TaggedParameterIterator::next on the iterator the caller holds.
IterNext ==
    /\ pc = "iter"
    /\ Len(SelectSeq(items, IsEnd)) < MaxExtraCalls
    /\ LET r == next(iter.bytes)
       IN  /\ iter' = [iter EXCEPT !.bytes = r.bytes]
           /\ items' = Append(items, r.item)
           /\ pc' = IF r.item = Panic THEN "panicked" ELSE "iter"
           /\ ret' = [op |-> "next", val |-> r.item]
    /\ UNCHANGED <<frame, coll, calls, suite>>

\* TaggedParametersTrait::tagged_parameters on a frame of a kind of Kinds.
TaggedParameters ==
    /\ pc = "frame"
    /\ IsManagement(frame) /\ frame.subtype \in Kinds
    /\ LET tp == tagged_parameters(frame)
       IN  /\ coll' = tp.res
           /\ calls' = tp.calls
           /\ pc' = IF tp.res = Panic THEN "panicked" ELSE "coll"
           /\ ret' = [op |-> "tagged_parameters", val |-> [k |-> tp.res.k]]
    /\ UNCHANGED <<frame, iter, items, suite>>

\* An accessor of the collection, returning val.
Accessor(op, val) ==
    /\ ret' = [op |-> op, val |-> val]
    /\ pc' = IF val = Panic THEN "panicked" ELSE "done"
    /\ UNCHANGED <<frame, iter, items, coll, calls, suite>>

Ssid == pc = "coll" /\ coll.k = "Ok" /\ Accessor("ssid", ssid(coll.tags))

SupportedRatesCall ==
    pc = "coll" /\ coll.k = "Ok"
    /\ Accessor("supported_rates", supported_rates(coll.tags))

Channel == pc = "coll" /\ coll.k = "Ok" /\ Accessor("channel", channel(coll.tags))

Rsn == pc = "coll" /\ coll.k = "Ok" /\ Accessor("rsn", rsn(coll.tags))

\* TaggedParametersTrait::ssid on a frame of a kind of Kinds.
TraitSsid ==
    /\ pc = "frame"
    /\ IsManagement(frame) /\ frame.subtype \in Kinds
    /\ Accessor("trait_ssid", trait_ssid(frame))

\* -------------------------------------------------- the frame specification

Init ==
    /\ frame \in WholeFrames \cup ShortFrames
    /\ pc = "frame"
    /\ iter = NoIter
    /\ items = << >>
    /\ coll = NoColl
    /\ calls = 0
    /\ ret = NoRet
    /\ suite = NoSuite

Next ==
    \/ IterTaggedParameters
    \/ OptIterTaggedParameters
    \/ IterNext
    \/ TaggedParameters
    \/ Ssid
    \/ SupportedRatesCall
    \/ Channel
    \/ Rsn
    \/ TraitSsid

Spec == Init /\ [][Next]_vars

\* -------------------------------------------------- the suite specification

\* Organizational ids: the IEEE one, and ids that differ from it in one
\* byte or in all of them.
OUIs == {<<0, 15, 172>>, <<0, 80, 242>>, <<1, 15, 172>>, <<0, 14, 172>>,
         <<0, 15, 173>>, <<0, 0, 0>>}

CipherSuiteFrom ==
    /\ pc = "suite"
    /\ ret' = [op |-> "CipherSuite::from",
               val |-> CipherSuite_from(suite.oui, suite.type_)]
    /\ pc' = "done"
    /\ UNCHANGED <<frame, iter, items, coll, calls, suite>>

AKMSuiteFrom ==
    /\ pc = "suite"
    /\ ret' = [op |-> "AKMSuite::from",
               val |-> AKMSuite_from(suite.oui, suite.type_)]
    /\ pc' = "done"
    /\ UNCHANGED <<frame, iter, items, coll, calls, suite>>

InitSuite ==
    /\ suite \in [oui : OUIs, type_ : 0..255]
    /\ pc = "suite"
    /\ frame = NoFrame
    /\ iter = NoIter
    /\ items = << >>
    /\ coll = NoColl
    /\ calls = 0
    /\ ret = NoRet

NextSuite == CipherSuiteFrom \/ AKMSuiteFrom

SpecSuite == InitSuite /\ [][NextSuite]_vars

\* ---------------------------------------------------- the RSN specification

\* The version fields: 1, 2 and 257.
VersionBytes == {<<1, 0>>, <<2, 0>>, <<1, 1>>}

\* Suite entries: one of the IEEE id and one of a vendor's.
SuiteBytes == {<<0, 15, 172, 2>>, <<0, 80, 242, 1>>}

\* The declared counts: 0..MaxSuites, and 256.
CountBytes == {<<c, 0>> : c \in 0..MaxSuites} \cup {<<0, 1>>}

\* The capability fields, one followed by a byte more.
CapBytes == {<<0, 0>>, <<173, 2, 7>>}

\* The lists of at most n suite entries.
RECURSIVE SuiteLists(_)
SuiteLists(n) ==
    IF n = 0 THEN {<< >>}
    ELSE SuiteLists(n - 1)
         \cup {l \o e : l \in SuiteLists(n - 1), e \in SuiteBytes}

\* The sequences of S cut at every length.
Cuts(S) == UNION {{SubSeq(w, 1, n) : n \in 0..Len(w)} : w \in S}

\* A field of S cut short, or whole and followed by one of rest.
Field(S, rest) == Cuts(S) \cup {x \o r : x \in S, r \in rest}

\* What follows the version of a version-1 value, cut at every length: the
\* group suite, a count and a list of pairwise entries, a count and a list of
\* authentication entries, the capabilities; the declared counts are
\* independent of the entries that follow them.
RsnBodies ==
    Field({<<0, 15, 172, 4>>, <<0, 80, 242, 1>>},
      Field(CountBytes,
        Field(SuiteLists(MaxSuites),
          Field(CountBytes,
            Field(SuiteLists(MaxSuites),
              Cuts(CapBytes))))))

\* The RSN values: a version cut short, version 1 before every body, and
\* the versions 2 and 257 before nothing and before a group suite.
RsnValues ==
    {<< >>, <<1>>}
    \cup {<<1, 0>> \o b : b \in RsnBodies}
    \cup {v \o b : v \in VersionBytes \ {<<1, 0>>},
                   b \in {<< >>, <<0, 15, 172, 4>>}}

\* Beacons whose region is one RSN tag.
InitRsn ==
    /\ frame \in {Management("Beacon",
                             Zeros(TAGGED_PARAMETERS_START("Beacon"))
                             \o <<48, Len(v)>> \o v) : v \in RsnValues}
    /\ pc = "frame"
    /\ iter = NoIter
    /\ items = << >>
    /\ coll = NoColl
    /\ calls = 0
    /\ ret = NoRet
    /\ suite = NoSuite

NextRsn == TaggedParameters \/ Rsn

SpecRsn == InitRsn /\ [][NextRsn]_vars

\* ------------------------------------------------------------- the claims

\* The complete records at the front of region r, read off its bytes: a
\* record is a tag number, a length L and L value bytes.
RECURSIVE Triples(_)
Triples(r) ==
    IF Len(r) < 2 \/ Len(r) < 2 + r[2]
    THEN << >>
    ELSE <<[tag |-> r[1], value |-> SubSeq(r, 3, 2 + r[2])]>>
         \o Triples(SubSeq(r, 3 + r[2], Len(r)))

\* The bytes the first n of those records take.
RECURSIVE Taken(_, _)
Taken(T, n) == IF n = 0 THEN 0 ELSE Taken(T, n - 1) + 2 + Len(T[n].value)

\* What is left of region r after its complete records.
Rest(r) == SubSeq(r, Taken(Triples(r), Len(Triples(r))) + 1, Len(r))

\* r is a back-to-back sequence of complete records.
IsWellFormed(r) == Rest(r) = << >>

\* r ends in a record whose declared length cannot be satisfied.
IsTruncated(r) == Len(Rest(r)) >= 2

\* The calls of next on the caller's iterator are on the region of frame.
Iterating == pc \in {"iter", "panicked"} /\ iter # NoIter

AccessorOps == {"ssid", "supported_rates", "channel", "rsn"}

\* C1: no typed accessor of a collection built by tagged_parameters() panics
\* or indexes outside a tag's value: ssid, supported_rates, channel and rsn
\* each return a value, present or absent.
C1_AccessorsNeverPanic ==
    ret.op \in AccessorOps => ret.val # Panic

\* C2: the overflow error next yields for a truncated record carries the
\* record's declared length as required_length and, as remaining_length, the
\* number of bytes that remained in the region when the record was met.
C2_ErrorCarriesRemaining ==
    Iterating =>
        \A j \in 1..Len(items) :
            items[j].k = "Err" =>
                LET T == Triples(Region(frame))
                    at == Taken(T, Len(T))
                IN  /\ items[j].required_length = Region(frame)[at + 2]
                    /\ items[j].remaining_length = Len(Region(frame)) - at

\* C3: the results of repeated calls of next hold at most one error; a
\* truncated record yields exactly one overflow error, and every later call
\* yields end-of-sequence; with fewer than two bytes left the iterator ends
\* with no error; the complete records before are yielded in order with
\* their value bytes; and no call reads outside the region.
C3_OneErrorThenEnd ==
    Iterating =>
        LET T == Triples(Region(frame))
        IN  /\ pc # "panicked"
            /\ Cardinality({j \in 1..Len(items) : items[j].k = "Err"}) <= 1
            /\ \A j \in 1..Len(items) :
                  /\ j <= Len(T) =>
                        items[j].k = "Ok" /\ items[j].tag_buffer = T[j].value
                  /\ j = Len(T) + 1 =>
                        items[j].k = IF IsTruncated(Region(frame)) THEN "Err" ELSE "None"
                  /\ j > Len(T) + 1 => items[j].k = "None"

C3_Witness ==
    /\ Iterating
    /\ Len(items) = 4
    /\ items[1].k = "Ok"
    /\ items[2].k = "Err"
    /\ items[3].k = "None"
    /\ items[4].k = "None"

\* C4: when a kind's TAGGED_PARAMETERS_START exceeds the length of the
\* frame's buffer, asking for the tagged-parameter iterator (through the
\* kind's trait, tagged_parameters() and ssid() built on it, or the
\* subtype-dispatching trait) produces no iterator and does not abort.
C4_ShortFrameNoIterator ==
    ( /\ frame # NoFrame
      /\ IsManagement(frame)
      /\ frame.subtype \in Kinds
      /\ TAGGED_PARAMETERS_START(frame.subtype) > Len(frame.bytes) )
    => pc # "panicked" /\ iter = NoIter /\ coll = NoColl

\* C5: for a region that is a back-to-back sequence of complete records,
\* tagged_parameters() succeeds and the collection maps exactly the tag
\* names of the records to their value bytes, the last record of a tag
\* number giving its value.
C5_CollectionOfWellFormed ==
    (pc = "coll" /\ IsWellFormed(Region(frame))) =>
        LET T == Triples(Region(frame))
        IN  /\ coll.k = "Ok"
            /\ DOMAIN coll.tags = {TagName_from(T[j].tag) : j \in 1..Len(T)}
            /\ \A j \in 1..Len(T) :
                  (\A l \in (j + 1)..Len(T) : T[l].tag # T[j].tag)
                  => coll.tags[TagName_from(T[j].tag)] = T[j].value

C5_Witness ==
    /\ pc = "coll"
    /\ IsWellFormed(Region(frame))
    /\ LET T == Triples(Region(frame))
       IN  /\ Len(T) = 2
           /\ T[1].tag = T[2].tag
           /\ T[1].value # T[2].value
           /\ coll.k = "Ok"

\* C6: tagged_parameters() is all-or-nothing: it returns the overflow error
\* and no collection exactly when the region has a truncated record, however
\* many complete records precede it; it returns a collection exactly when the
\* iterator ends cleanly; and it calls next no more after the first error.
C6_AllOrNothing ==
    pc = "coll" =>
        LET T == Triples(Region(frame))
        IN  /\ coll.k \in {"Ok", "Err"}
            /\ coll.k = "Err" <=> IsTruncated(Region(frame))
            /\ coll.k = "Err" => "tags" \notin DOMAIN coll
            /\ calls = Len(T) + 1

C6_Witness ==
    /\ pc = "coll"
    /\ coll.k = "Err"
    /\ Len(Triples(Region(frame))) >= 1

\* C9: channel() is the first byte of the DS-Parameter tag's value when that
\* tag is present, with or without an HT-Information tag; the first byte of
\* the HT-Information tag's value when only that tag is present; absent when
\* neither is.
C9_ChannelResolution ==
    ret.op = "channel" =>
        IF DSParameter \in DOMAIN coll.tags
        THEN ret.val.k = "Some" /\ ret.val.v = coll.tags[DSParameter][1]
        ELSE IF HTInformation \in DOMAIN coll.tags
             THEN ret.val.k = "Some" /\ ret.val.v = coll.tags[HTInformation][1]
             ELSE ret.val = None

\* The value of the last SSID record of T, if any.
RECURSIVE LastSsid(_, _)
LastSsid(T, n) ==
    IF n = 0 THEN None
    ELSE IF T[n].tag = 0 THEN Some(T[n].value)
    ELSE LastSsid(T, n - 1)

\* C10: the frame's ssid() is absent whenever the region has a truncated
\* record, also when a complete SSID record precedes it; for a region
\* without one it is the value of the last SSID record, or absent when
\* there is none.
C10_FrameSsid ==
    (ret.op = "trait_ssid" /\ HasRegion(frame)) =>
        LET T == Triples(Region(frame))
        IN  ret.val = IF IsTruncated(Region(frame)) THEN None
                      ELSE LastSsid(T, Len(T))

C10_Witness ==
    /\ ret.op = "trait_ssid"
    /\ HasRegion(frame)
    /\ IsTruncated(Region(frame))
    /\ LastSsid(Triples(Region(frame)), Len(Triples(Region(frame)))) # None
    /\ ret.val = None

\* The little-endian 16-bit value at offset off of b.
U16(b, off) == b[off + 1] + 256 * b[off + 2]

Min(a, b) == IF a <= b THEN a ELSE b

\* The capabilities of the 16-bit value w: bit 0 pre-auth, bit 1
\* no-pairwise, bits 2-3 and 4-5 the replay-counter codes, bit 6
\* protection required, bit 7 protection capable, bit 8 joint multi-band,
\* bit 9 peer-key.
Bit(w, n) == (w \div (2 ^ n)) % 2 = 1

CapabilitiesOf(w) ==
    [pre_auth |-> Bit(w, 0),
     pairwise |-> Bit(w, 1),
     ptksa_replay_counter_value |-> (w \div 4) % 4,
     gtksa_replay_counter_value |-> (w \div 16) % 4,
     management_frame_protection_required |-> Bit(w, 6),
     management_frame_protection_capable |-> Bit(w, 7),
     joint_multi_band_rsna |-> Bit(w, 8),
     peerkey |-> Bit(w, 9)]

\* The descriptor of the bytes b that follow version 1, field by field: each
\* field is there when the fields before it are whole and its bytes remain.
ExpectedRsn(b) ==
    LET m == Len(b)
        hasGroup == m >= 4
        hasP == m >= 6
        P == U16(b, 4)
        nP == Min(P, (m - 6) \div 4)
        offA == 6 + 4 * P
        hasA == hasP /\ nP = P /\ m >= offA + 2
        A == U16(b, offA)
        nA == Min(A, (m - offA - 2) \div 4)
        offC == offA + 2 + 4 * A
        hasC == hasA /\ nA = A /\ m >= offC + 2
    IN  [group_cipher_suite |->
            IF hasGroup THEN Some(CipherSuite_from(SubSeq(b, 1, 3), b[4])) ELSE None,
         pairwise_cipher_suites |->
            IF hasP
            THEN [j \in 1..nP |->
                    CipherSuite_from(SubSeq(b, 4 * j + 3, 4 * j + 5), b[4 * j + 6])]
            ELSE << >>,
         akm_suites |->
            IF hasA
            THEN [j \in 1..nA |->
                    AKMSuite_from(SubSeq(b, offA + 4 * j - 1, offA + 4 * j + 1),
                                  b[offA + 4 * j + 2])]
            ELSE << >>,
         capabilities |->
            IF hasC THEN Some(CapabilitiesOf(U16(b, offC))) ELSE None]

\* C7: rsn() never fails, whatever the length of the RSN tag's value: a
\* version other than 1 gives the reserved raw version and nothing else; for
\* version 1 the group suite, the counted pairwise entries, the counted
\* authentication entries and the capabilities are decoded in that order,
\* each only if its bytes remain, and at the first that lacks bytes the
\* descriptor holds what was decoded so far and the rest is absent or empty.
C7_RsnLenient ==
    ret.op = "rsn" =>
        LET v == coll.tags[RSNInformation]
        IN  /\ ret.val.k \in {"None", "Some"}
            /\ ret.val.k = "None" <=> Len(v) < 2
            /\ (Len(v) >= 2 /\ U16(v, 0) # 1) =>
                  ret.val.v = [k |-> "Reserved", version |-> U16(v, 0)]
            /\ (Len(v) >= 2 /\ U16(v, 0) = 1) =>
                  /\ ret.val.v.k = "Standard"
                  /\ ret.val.v.rsn = ExpectedRsn(SubSeq(v, 3, Len(v)))

\* A pairwise list cut short: one entry of the two hundred and fifty-six
\* declared, then bytes enough for a count but not for an entry.
C7_Witness ==
    /\ ret.op = "rsn"
    /\ ret.val.k = "Some"
    /\ ret.val.v.k = "Standard"
    /\ Len(ret.val.v.rsn.pairwise_cipher_suites) = 1
    /\ LET v == coll.tags[RSNInformation]
       IN  U16(v, 6) > 1 /\ Len(v) >= 14
    /\ ret.val.v.rsn.akm_suites = << >>
    /\ ret.val.v.rsn.capabilities = None

IEEE == <<0, 15, 172>>

\* The type code a standard cipher suite type stands for.
CipherCode(t) ==
    CASE t.name = "WEP40" -> 1
      [] t.name = "TKIP" -> 2
      [] t.name = "CCMP" -> 4
      [] t.name = "WEP104" -> 5
      [] t.name = "BIP" -> 6
      [] t.name = "GroupAddressedTrafficNotAllowed" -> 7
      [] t.name = "Reserved" -> t.code

\* The type code a standard authentication suite type stands for.
AKMCode(t) ==
    CASE t.name = "IEEE802_1X" -> 1
      [] t.name = "PSK" -> 2
      [] t.name = "FTOver802_1X" -> 3
      [] t.name = "FTPSK" -> 4
      [] t.name = "IEEE802_1XSHA" -> 5
      [] t.name = "PSKSHA" -> 6
      [] t.name = "TDLS" -> 7
      [] t.name = "SAE" -> 8
      [] t.name = "FTOverSAE" -> 9
      [] t.name = "Reserved" -> t.code

\* C8: suite classification is total: the id 00:0F:AC gives a standard
\* suite, any other id a vendor suite carrying the id and the type byte
\* unchanged; standard cipher codes 1, 2, 4, 5, 6, 7 give six distinct named
\* kinds and 3 and 8..255 the reserved holder of that code; standard
\* authentication codes 1..9 give nine distinct named kinds and every other
\* code the reserved holder of that code; the code is always recoverable.
C8_SuiteClassification ==
    /\ ret.op = "CipherSuite::from" =>
          IF suite.oui = IEEE
          THEN /\ ret.val.k = "Standard"
               /\ suite.type_ \in {1, 2, 4, 5, 6, 7} => ret.val.type_.name # "Reserved"
               /\ suite.type_ \in {3} \cup (8..255) =>
                     ret.val.type_ = [name |-> "Reserved", code |-> suite.type_]
               /\ CipherCode(ret.val.type_) = suite.type_
          ELSE ret.val = [k |-> "Vendor", oui |-> suite.oui, type_ |-> suite.type_]
    /\ ret.op = "AKMSuite::from" =>
          IF suite.oui = IEEE
          THEN /\ ret.val.k = "Standard"
               /\ suite.type_ \in 1..9 => ret.val.type_.name # "Reserved"
               /\ suite.type_ \notin 1..9 =>
                     ret.val.type_ = [name |-> "Reserved", code |-> suite.type_]
               /\ AKMCode(ret.val.type_) = suite.type_
          ELSE ret.val = [k |-> "Vendor", oui |-> suite.oui, type_ |-> suite.type_]

C8_Witness ==
    /\ ret.op = "CipherSuite::from"
    /\ suite.oui = IEEE
    /\ suite.type_ = 3
    /\ ret.val = [k |-> "Standard", type_ |-> [name |-> "Reserved", code |-> 3]]

====
